---- MODULE Spec2Model ----
(***************************************************************************)
(* Model of cmip6_clt_extraction.py: the matcher (find_matching_variants), *)
(* the script emitter (generate_wget_scripts) and main.                    *)
(*                                                                         *)
(* The ESGF catalogue is the environment.  A query returns a sequence of   *)
(* dataset handles; each handle has a metadata mapping `json` (facet name  *)
(* -> list of strings, a facet may be absent or an empty list) and a       *)
(* dataset_id property whose read may raise.                               *)
(***************************************************************************)
EXTENDS Naturals, Sequences, FiniteSets, TLC

\* ---------------------------------------------------------------- bounds
\* Longest result sequence one catalogue query returns.
MaxLen == 2
\* Largest number of files a dataset's file listing holds.
MaxFiles == 1

\* ------------------------------------------------------- program constants
\* summary.sort_values(...).head(5)
TopN == 5

Experiments == <<"historical", "ssp585">>

\* ------------------------------------------------------------ environment
Facet(v) == <<v>>

\* Metadata mappings the catalogue can return for one dataset.
Catalogue ==
  { [json |-> [source_id |-> Facet("A"), institution_id |-> Facet("I1"),
               variant_label |-> Facet("r1"), grid_label |-> Facet("gn")],
     has_id |-> TRUE],
    [json |-> [source_id |-> Facet("A"), institution_id |-> Facet("I2"),
               variant_label |-> Facet("r1"), grid_label |-> Facet("gn")],
     has_id |-> TRUE],
    [json |-> [source_id |-> Facet("A"), institution_id |-> Facet("I1"),
               variant_label |-> Facet("r2"), grid_label |-> Facet("gn")],
     has_id |-> TRUE],
    \* variant_label absent from the metadata
    [json |-> [source_id |-> Facet("A"), institution_id |-> Facet("I1"),
               grid_label |-> Facet("gn")],
     has_id |-> TRUE],
    \* the handle has no id: reading ds.dataset_id raises
    [json |-> [source_id |-> Facet("A"), institution_id |-> Facet("I1"),
               variant_label |-> Facet("r1"), grid_label |-> Facet("gn")],
     has_id |-> FALSE],
    \* variant_label present but an empty list: [0] raises IndexError
    [json |-> [source_id |-> Facet("A"), institution_id |-> Facet("I1"),
               variant_label |-> <<>>, grid_label |-> Facet("gn")],
     has_id |-> TRUE],
    [json |-> [source_id |-> Facet("A_r1"), institution_id |-> Facet("I1"),
               variant_label |-> Facet("r1"), grid_label |-> Facet("gn")],
     has_id |-> TRUE],
    [json |-> [source_id |-> Facet("A"), institution_id |-> Facet("I1"),
               variant_label |-> Facet("r1_r1"), grid_label |-> Facet("gn")],
     has_id |-> TRUE] }

\* The datasets of the catalogue whose metadata is complete and well formed.
WellFormed ==
  { e \in Catalogue :
      /\ e.has_id
      /\ DOMAIN e.json = {"source_id", "institution_id", "variant_label", "grid_label"}
      /\ e.json.variant_label \in {Facet("r1"), Facet("r2")}
      /\ e.json.institution_id = Facet("I1") }

SeqsUpTo(S, n) == UNION { [1..k -> S] : k \in 0..n }

\* ctx.search(): the handles of one experiment, in result order.  The dataset
\* id of a handle is unique to the experiment and the position.
SearchResults(experiment, entries) ==
  [i \in 1..Len(entries) |->
     [json |-> entries[i].json,
      has_id |-> entries[i].has_id,
      dataset_id |-> <<experiment, i>>]]

\* --------------------------------------------------------------- helpers
\* ds.json.get(field, [''])
JsonGet(json, field) == IF field \in DOMAIN json THEN json[field] ELSE <<"">>

\* ds.json.get(field, [''])[0] raises IndexError on an empty list
GetRaises(json, field) == JsonGet(json, field) = <<>>

\* ds.json.get(field, [''])[0]
GetFirst(json, field) == Head(JsonGet(json, field))

\* f"{source_id}_{variant}_{grid}"
ModelVariantKey(source_id, variant, grid) ==
  source_id \o "_" \o variant \o "_" \o grid

\* d[key] = value
DictPut(d, key, value) ==
  [k \in DOMAIN d \cup {key} |-> IF k = key THEN value ELSE d[k]]

EmptyDict == [k \in {} |-> 0]

AlreadySeenNever(model_key, seen_models) == FALSE

\* `if model_key in seen_models` / `if model_name in already_included_models`
AlreadySeen(model_key, seen_models) == model_key \in seen_models

\* The body of the try block once the model name is known and admitted:
\* the remaining facets, the seen_models test and the store.
\* st = [seen_models, models]
StoreDataset(st, ds, source_id) ==
  IF \/ GetRaises(ds.json, "institution_id")
     \/ GetRaises(ds.json, "variant_label")
     \/ GetRaises(ds.json, "grid_label")
  THEN st                                   \* except: continue
  ELSE
    LET institute == GetFirst(ds.json, "institution_id")
        variant   == GetFirst(ds.json, "variant_label")
        grid      == GetFirst(ds.json, "grid_label")
        model_key == source_id
    IN IF AlreadySeen(model_key, st.seen_models)
       THEN st                              \* continue
       ELSE IF ~ds.has_id
       THEN \* ds.dataset_id raises after seen_models.add(model_key)
            [st EXCEPT !.seen_models = @ \cup {model_key}]
       ELSE [seen_models |-> st.seen_models \cup {model_key},
             models |-> DictPut(st.models,
                          ModelVariantKey(source_id, variant, grid),
                          [variant |-> variant, grid |-> grid,
                           dataset_id |-> ds.dataset_id,
                           model |-> source_id, institute |-> institute])]

\* One iteration of `for ds in ssp_results`
ProcessSspDataset(st, ds) ==
  IF GetRaises(ds.json, "source_id")
  THEN st
  ELSE StoreDataset(st, ds, GetFirst(ds.json, "source_id"))

\* One iteration of `for ds in hist_results`
ProcessHistDataset(st, ds, ssp_models_list) ==
  IF GetRaises(ds.json, "source_id")
  THEN st
  ELSE LET source_id == GetFirst(ds.json, "source_id")
       IN IF source_id \notin ssp_models_list
          THEN st
          ELSE StoreDataset(st, ds, source_id)

LoopStart == [seen_models |-> {}, models |-> EmptyDict]

RECURSIVE SspLoop(_, _)
\* `for ds in ssp_results`, from state st
SspLoop(st, results) ==
  IF results = <<>> THEN st
  ELSE SspLoop(ProcessSspDataset(st, Head(results)), Tail(results))

RECURSIVE HistLoop(_, _, _)
\* `for ds in hist_results`, from state st
HistLoop(st, results, ssp_models_list) ==
  IF results = <<>> THEN st
  ELSE HistLoop(ProcessHistDataset(st, Head(results), ssp_models_list),
                Tail(results), ssp_models_list)

\* list(set(info['model'] for info in ssp585_models.values()))
ModelsList(models) == { models[k].model : k \in DOMAIN models }

\* set(historical_models.keys()) & set(ssp585_models.keys())
CommonKeys(hist_models, ssp_models) == DOMAIN hist_models \cap DOMAIN ssp_models

\* The orders in which `for key in common_keys` can visit a set.
Orders(S) ==
  { o \in [1..Cardinality(S) -> S] : \A i, j \in DOMAIN o : i # j => o[i] # o[j] }

RECURSIVE MatchLoop(_, _, _, _, _)
\* `for key in common_keys`, visiting the keys in the order `keys`
MatchLoop(matched, included, keys, hist_models, ssp_models) ==
  IF keys = <<>> THEN matched
  ELSE
    LET key == Head(keys)
        hist_info == hist_models[key]
        ssp_info == ssp_models[key]
        model_name == hist_info.model
    IN IF AlreadySeen(model_name, included)
       THEN MatchLoop(matched, included, Tail(keys), hist_models, ssp_models)
       ELSE MatchLoop(
              Append(matched,
                     [model |-> hist_info.model,
                      institute |-> hist_info.institute,
                      variant |-> hist_info.variant,
                      grid |-> hist_info.grid,
                      historical_dataset |-> hist_info.dataset_id,
                      ssp585_dataset |-> ssp_info.dataset_id]),
              included \cup {model_name},
              Tail(keys), hist_models, ssp_models)

\* The lists find_matching_variants can return from the two groupings.
MatchedLists(hist_models, ssp_models) ==
  { MatchLoop(<<>>, {}, o, hist_models, ssp_models) :
      o \in Orders(CommonKeys(hist_models, ssp_models)) }

\* find_matching_variants(): the lists it can return for the two query results
FindMatchingVariants(ssp_res, hist_res) ==
  LET ssp_models == SspLoop(LoopStart, ssp_res).models
      hist_models == HistLoop(LoopStart, hist_res, ModelsList(ssp_models)).models
  IN MatchedLists(hist_models, ssp_models)

\* The try block of the loops raises for ds, the loop being in state st:
\* a facet is an empty list, or the store is reached and ds.dataset_id raises.
DatasetRaises(st, ds, admitted) ==
  \/ GetRaises(ds.json, "source_id")
  \/ /\ admitted
     /\ \/ GetRaises(ds.json, "institution_id")
        \/ GetRaises(ds.json, "variant_label")
        \/ GetRaises(ds.json, "grid_label")
        \/ /\ ~AlreadySeen(GetFirst(ds.json, "source_id"), st.seen_models)
           /\ ~ds.has_id

\* ---------------------------------------------------------- script emitter
\* output_dir passed by main
OutputDir == "./cmip6_clt_data"

\* os.path.join(a, b)
PathJoin(a, b) == a \o "/" \o b

\* What the catalogue and the file system do for one experiment of one model:
\*   search_error: conn.search / file_context / file_ctx.search raises
\*   write_error : the listing has `files` entries, then open/write/chmod raises
\*   ok          : the listing has `files` entries and the script is written
Outcomes ==
  { [kind |-> "search_error", files |-> 0] } \cup
  { [kind |-> k, files |-> n] : k \in {"ok", "write_error"}, n \in 0..MaxFiles }

\* file_counts.get(experiment, 0) / wget_paths.get(experiment, '')
DictGet(d, key, default) == IF key \in DOMAIN d THEN d[key] ELSE default

\* The except handler writes nothing (the count set before the failure stays).
ProcessExperimentNoReset(acc, model_dir, experiment, outcome) ==
  IF outcome.kind = "ok"
  THEN [file_counts |-> DictPut(acc.file_counts, experiment, outcome.files),
        wget_paths |-> DictPut(acc.wget_paths, experiment,
                               PathJoin(model_dir, experiment \o "_wget.sh"))]
  ELSE IF outcome.kind = "write_error"
  THEN [acc EXCEPT !.file_counts = DictPut(@, experiment, outcome.files)]
  ELSE acc

\* One iteration of `for experiment in ['historical', 'ssp585']`
\* acc = [file_counts, wget_paths]
ProcessExperiment(acc, model_dir, experiment, outcome) ==
  IF outcome.kind = "search_error"
  THEN \* raised before file_counts[experiment] = len(files)
       [acc EXCEPT !.file_counts = DictPut(@, experiment, 0)]
  ELSE
    LET counted == [acc EXCEPT !.file_counts = DictPut(@, experiment, outcome.files)]
    IN IF outcome.kind = "write_error"
       THEN \* except: file_counts[experiment] = 0
            [counted EXCEPT !.file_counts = DictPut(@, experiment, 0)]
       ELSE [counted EXCEPT !.wget_paths =
               DictPut(@, experiment, PathJoin(model_dir, experiment \o "_wget.sh"))]

\* The summary row of one iteration of `for i, model_info in enumerate(...)`;
\* outcomes = [historical |-> outcome, ssp585 |-> outcome]
SummaryRow(model_info, outcomes) ==
  LET model_name == model_info.model
      variant == model_info.variant
      model_dir == PathJoin(OutputDir, model_name \o "_" \o variant)
      acc0 == [file_counts |-> EmptyDict, wget_paths |-> EmptyDict]
      acc1 == ProcessExperiment(acc0, model_dir, Experiments[1], outcomes[Experiments[1]])
      acc2 == ProcessExperiment(acc1, model_dir, Experiments[2], outcomes[Experiments[2]])
  IN [model |-> model_name,
      institute |-> model_info.institute,
      variant |-> variant,
      grid |-> model_info.grid,
      historical_files |-> DictGet(acc2.file_counts, "historical", 0),
      ssp585_files |-> DictGet(acc2.file_counts, "ssp585", 0),
      historical_wget |-> DictGet(acc2.wget_paths, "historical", ""),
      ssp585_wget |-> DictGet(acc2.wget_paths, "ssp585", "")]

\* ------------------------------------------------------------------- main
TotalFilesHistoricalOnly(row) == row.historical_files

\* summary['historical_files'] + summary['ssp585_files']
TotalFiles(row) == row.historical_files + row.ssp585_files

\* summary with the total_files column
WithTotals(summary) ==
  [i \in DOMAIN summary |->
     [model |-> summary[i].model, variant |-> summary[i].variant,
      historical_files |-> summary[i].historical_files,
      ssp585_files |-> summary[i].ssp585_files,
      total_files |-> TotalFiles(summary[i])]]

\* first n rows
HeadN(s, n) == IF Len(s) <= n THEN s ELSE SubSeq(s, 1, n)

\* summary.sort_values('total_files', ascending=False).head(5); the default
\* sort is not stable, rows with equal totals come in any order.
TopModels(summary) ==
  LET rows == WithTotals(summary)
      perms == { p \in [DOMAIN rows -> DOMAIN rows] :
                   \A i, j \in DOMAIN rows : i # j => p[i] # p[j] }
      sorted == { p \in perms :
                   \A i, j \in DOMAIN rows :
                      i < j => rows[p[i]].total_files >= rows[p[j]].total_files }
  IN { HeadN([i \in DOMAIN rows |-> rows[p[i]]], TopN) : p \in sorted }

NoMatchesNever(matched) == FALSE

\* `if not matched_models`
NoMatches(matched) == matched = <<>>

\* ------------------------------------------------------------------ state
VARIABLES
  pc,                \* position of main
  ssp_results,       \* result of the ssp585 query
  hist_results,      \* result of the historical query
  ssp585_models,     \* dict model_variant_key -> info
  historical_models, \* dict model_variant_key -> info
  matched_models,    \* list returned by find_matching_variants
  listings,          \* per processed model and experiment, the kind of outcome met
  model_summary,     \* rows accumulated by generate_wget_scripts
  summary_csv,       \* model_summary.csv: <<>> while absent, else <<rows>>
  top_models,        \* rows of the top-5 report
  output             \* messages main has printed

vars == <<pc, ssp_results, hist_results, ssp585_models, historical_models,
          matched_models, listings, model_summary, summary_csv, top_models,
          output>>

matcherVars == <<ssp_results, hist_results, ssp585_models, historical_models,
                 matched_models>>
emitterVars == <<listings, model_summary, summary_csv, top_models, output>>

Init ==
  /\ pc = "start"
  /\ ssp_results = <<>>
  /\ hist_results = <<>>
  /\ ssp585_models = EmptyDict
  /\ historical_models = EmptyDict
  /\ matched_models = <<>>
  /\ listings = <<>>
  /\ model_summary = <<>>
  /\ summary_csv = <<>>
  /\ top_models = <<>>
  /\ output = <<>>

\* find_matching_variants: the ssp585 query and its loop
SearchSsp(catalogue) ==
  /\ pc = "start"
  /\ \E entries \in SeqsUpTo(catalogue, MaxLen) :
       /\ ssp_results' = SearchResults("ssp585", entries)
       /\ ssp585_models' = SspLoop(LoopStart, ssp_results').models
  /\ pc' = "ssp_done"
  /\ UNCHANGED <<hist_results, historical_models, matched_models>>
  /\ UNCHANGED emitterVars

\* find_matching_variants: the historical query and its loop
SearchHistorical(catalogue) ==
  /\ pc = "ssp_done"
  /\ \E entries \in SeqsUpTo(catalogue, MaxLen) :
       /\ hist_results' = SearchResults("historical", entries)
       /\ historical_models' =
            HistLoop(LoopStart, hist_results', ModelsList(ssp585_models)).models
  /\ pc' = "hist_done"
  /\ UNCHANGED <<ssp_results, ssp585_models, matched_models>>
  /\ UNCHANGED emitterVars

\* find_matching_variants: the intersection and the matched list
BuildMatched ==
  /\ pc = "hist_done"
  /\ matched_models' \in MatchedLists(historical_models, ssp585_models)
  /\ pc' = "matched"
  /\ UNCHANGED <<ssp_results, hist_results, ssp585_models, historical_models>>
  /\ UNCHANGED emitterVars

\* main: no match, print the message and return
MainNoMatch ==
  /\ pc = "matched"
  /\ NoMatches(matched_models)
  /\ output' = Append(output, "No matching models found. Exiting.")
  /\ pc' = "done"
  /\ UNCHANGED matcherVars
  /\ UNCHANGED <<listings, model_summary, summary_csv, top_models>>

\* main calls generate_wget_scripts, which sets up its summary
StartGenerate ==
  /\ pc = "matched"
  /\ ~NoMatches(matched_models)
  /\ model_summary' = <<>>
  /\ pc' = "generate"
  /\ UNCHANGED matcherVars
  /\ UNCHANGED <<listings, summary_csv, top_models, output>>

\* generate_wget_scripts: one iteration of the loop over matched_models
GenerateModel ==
  /\ pc = "generate"
  /\ Len(model_summary) < Len(matched_models)
  /\ \E outcomes \in [{"historical", "ssp585"} -> Outcomes] :
       /\ listings' = Append(listings, [e \in DOMAIN outcomes |-> outcomes[e].kind])
       /\ model_summary' =
            Append(model_summary,
                   SummaryRow(matched_models[Len(model_summary) + 1], outcomes))
  /\ UNCHANGED pc
  /\ UNCHANGED matcherVars
  /\ UNCHANGED <<summary_csv, top_models, output>>

\* generate_wget_scripts: write model_summary.csv and return the frame
SaveSummary ==
  /\ pc = "generate"
  /\ Len(model_summary) = Len(matched_models)
  /\ summary_csv' = <<model_summary>>
  /\ pc' = "report"
  /\ UNCHANGED matcherVars
  /\ UNCHANGED <<listings, model_summary, top_models, output>>

\* main: instructions, total_files and the top-5 report
MainReport ==
  /\ pc = "report"
  /\ top_models' \in TopModels(model_summary)
  /\ output' = Append(output, "Top 5 models by total file count:")
  /\ pc' = "done"
  /\ UNCHANGED matcherVars
  /\ UNCHANGED <<listings, model_summary, summary_csv>>

\* main, end to end, over a catalogue of well-formed datasets
Next ==
  \/ SearchSsp(WellFormed)
  \/ SearchHistorical(WellFormed)
  \/ BuildMatched
  \/ MainNoMatch
  \/ StartGenerate
  \/ GenerateModel
  \/ SaveSummary
  \/ MainReport

Spec == Init /\ [][Next]_vars

\* find_matching_variants alone, over the whole catalogue
NextMatcher ==
  \/ SearchSsp(Catalogue)
  \/ SearchHistorical(Catalogue)
  \/ BuildMatched

SpecMatcher == Init /\ [][NextMatcher]_vars

\* ================================================================ claims
Range(s) == { s[i] : i \in DOMAIN s }

IdentityFacets == {"source_id", "institution_id", "variant_label", "grid_label"}

\* Every identity facet of ds can be read (absent facets read as '').
Extractable(ds) == \A f \in IdentityFacets : ~GetRaises(ds.json, f)

\* No identity facet of ds is absent.
HasAllFacets(ds) == IdentityFacets \subseteq DOMAIN ds.json

\* A record in the sense of the data model: all facets present and readable,
\* and a dataset id.
Complete(ds) == HasAllFacets(ds) /\ Extractable(ds) /\ ds.has_id

Identity(ds) ==
  [model |-> GetFirst(ds.json, "source_id"),
   institute |-> GetFirst(ds.json, "institution_id"),
   variant |-> GetFirst(ds.json, "variant_label"),
   grid |-> GetFirst(ds.json, "grid_label")]

MatchIdentity(mm) ==
  [model |-> mm.model, institute |-> mm.institute,
   variant |-> mm.variant, grid |-> mm.grid]

Returned == pc \notin {"start", "ssp_done", "hist_done"}

RemoveAt(s, i) == [j \in 1..(Len(s) - 1) |-> IF j < i THEN s[j] ELSE s[j + 1]]

\* C1: find_matching_variants returns a MatchedModel for (model, institute,
\* variant, grid) if and only if both query results contain a record with that
\* model, institute, variant and grid.
C1_MatchedIffBothContain ==
  Returned =>
    /\ \A mm \in Range(matched_models) :
         \E h \in Range(hist_results), s \in Range(ssp_results) :
           /\ Extractable(h) /\ Extractable(s)
           /\ Identity(h) = MatchIdentity(mm)
           /\ Identity(s) = MatchIdentity(mm)
    /\ \A h \in Range(hist_results), s \in Range(ssp_results) :
         (Complete(h) /\ Complete(s) /\ Identity(h) = Identity(s))
           => \E mm \in Range(matched_models) : MatchIdentity(mm) = Identity(h)

\* C2: every returned MatchedModel pairs a historical record and an ssp585
\* record with the same model, institute, variant and grid, and carries the
\* dataset ids of those two records.
C2_MatchedPairsSameIdentity ==
  Returned =>
    \A mm \in Range(matched_models) :
      \E h \in Range(hist_results), s \in Range(ssp_results) :
        /\ Extractable(h) /\ Extractable(s)
        /\ Identity(h) = MatchIdentity(mm)
        /\ Identity(s) = MatchIdentity(mm)
        /\ h.has_id /\ mm.historical_dataset = h.dataset_id
        /\ s.has_id /\ mm.ssp585_dataset = s.dataset_id

\* The matcher with the roles of the experiments swapped: the first loop runs
\* over the historical result, the second over the ssp585 result filtered to
\* the models kept from historical.
SwappedMatching(ssp_res, hist_res) ==
  LET hist_models == SspLoop(LoopStart, hist_res).models
      ssp_models == HistLoop(LoopStart, ssp_res, ModelsList(hist_models)).models
  IN MatchedLists(hist_models, ssp_models)

\* C3: processing ssp585 first and historical second returns the same set of
\* MatchedModel records as processing historical first and ssp585 second.
C3_SymmetricInExperimentOrder ==
  Returned =>
    \A swapped \in SwappedMatching(ssp_results, hist_results) :
      Range(swapped) = Range(matched_models)

\* C4: a record with an absent model, institute, variant or grid facet is in
\* no per-experiment grouping and in no MatchedModel.
C4_IncompleteRecordExcluded ==
  Returned =>
    /\ \A ds \in Range(ssp_results) :
         ~HasAllFacets(ds) =>
           /\ \A k \in DOMAIN ssp585_models :
                ssp585_models[k].dataset_id # ds.dataset_id
           /\ \A mm \in Range(matched_models) : mm.ssp585_dataset # ds.dataset_id
    /\ \A ds \in Range(hist_results) :
         ~HasAllFacets(ds) =>
           /\ \A k \in DOMAIN historical_models :
                historical_models[k].dataset_id # ds.dataset_id
           /\ \A mm \in Range(matched_models) : mm.historical_dataset # ds.dataset_id

\* C6: no two entries of the returned list have the same model name.
C6_OneMatchPerModel ==
  \A i, j \in DOMAIN matched_models :
    i # j => matched_models[i].model # matched_models[j].model

\* The (variant, grid) pairs a model publishes in a result.
VariantsOf(results, model) ==
  { <<Identity(ds).variant, Identity(ds).grid>> :
      ds \in { d \in Range(results) : Complete(d) /\ Identity(d).model = model } }

\* C6 witness: a matched model publishes two variants under both experiments.
C6_Witness ==
  /\ Returned
  /\ \E mm \in Range(matched_models) :
       Cardinality(VariantsOf(ssp_results, mm.model)
                   \cap VariantsOf(hist_results, mm.model)) >= 2

\* Positions of the complete records of a result with mm's model, variant, grid.
Duplicates(results, mm) ==
  { i \in DOMAIN results :
      /\ Complete(results[i])
      /\ Identity(results[i]).model = mm.model
      /\ Identity(results[i]).variant = mm.variant
      /\ Identity(results[i]).grid = mm.grid }

SetMax(S) == CHOOSE x \in S : \A y \in S : y <= x
SetMin(S) == CHOOSE x \in S : \A y \in S : x <= y

FirstOfModel(results, model) ==
  SetMin({ i \in DOMAIN results :
             Extractable(results[i]) /\ Identity(results[i]).model = model })

\* The grouping entry comes from the first readable record of its model.
FromFirstOfModel(results, info) ==
  /\ \E i \in DOMAIN results :
       Extractable(results[i]) /\ Identity(results[i]).model = info.model
  /\ info.dataset_id = results[FirstOfModel(results, info.model)].dataset_id

RaisingInSsp(results) ==
  { i \in DOMAIN results :
      DatasetRaises(SspLoop(LoopStart, SubSeq(results, 1, i - 1)), results[i], TRUE) }

RaisingInHist(results, ssp_models_list) ==
  { i \in DOMAIN results :
      DatasetRaises(HistLoop(LoopStart, SubSeq(results, 1, i - 1), ssp_models_list),
                    results[i],
                    ~GetRaises(results[i].json, "source_id")
                      /\ GetFirst(results[i].json, "source_id") \in ssp_models_list) }

\* C10: a record whose processing raises leaves the returned matches the same
\* as those returned from the query results without that record.
C10_RaisingRecordAsIfRemoved ==
  Returned =>
    /\ \A i \in RaisingInSsp(ssp_results) :
         \A l \in FindMatchingVariants(RemoveAt(ssp_results, i), hist_results) :
           Range(l) = Range(matched_models)
    /\ \A i \in RaisingInHist(hist_results, ModelsList(ssp585_models)) :
         \A l \in FindMatchingVariants(ssp_results, RemoveAt(hist_results, i)) :
           Range(l) = Range(matched_models)

FilesField(row, experiment) ==
  IF experiment = "historical" THEN row.historical_files ELSE row.ssp585_files

WgetField(row, experiment) ==
  IF experiment = "historical" THEN row.historical_wget ELSE row.ssp585_wget

\* C5: when the file listing or the script of one experiment of one matched
\* model fails, the row of that model records 0 files for that experiment, the
\* model keeps its row, the other experiment is still processed (its script
\* path is recorded when it succeeds) and every later model gets its row.
C5_FailedExperimentCountsZero ==
  /\ Len(listings) = Len(model_summary)
  /\ Len(model_summary) <= Len(matched_models)
  /\ \A i \in DOMAIN model_summary :
       /\ MatchIdentity(model_summary[i]) = MatchIdentity(matched_models[i])
       /\ \A e \in Range(Experiments) :
            /\ listings[i][e] # "ok" => FilesField(model_summary[i], e) = 0
            /\ listings[i][e] = "ok" <=> WgetField(model_summary[i], e) # ""
  /\ pc \in {"report", "done"} => Len(model_summary) = Len(matched_models)

\* C5 witness: the run has ended; the script of the historical experiment of
\* the first of two models failed after its files were listed, its ssp585
\* experiment succeeded with files, and the second model has its row.
C5_Witness ==
  /\ pc = "done"
  /\ Len(model_summary) = 2
  /\ listings[1]["historical"] = "write_error"
  /\ listings[1]["ssp585"] = "ok"
  /\ model_summary[1].historical_files = 0
  /\ model_summary[1].ssp585_files > 0
  /\ listings[2]["historical"] = "ok"

\* C7: every MatchedModel is exactly one row of the summary, in list order;
\* the total_files of each ranked row is its historical_files plus its
\* ssp585_files, and the ranking is in descending total_files order.
C7_SummaryRoundTrip ==
  /\ (pc \in {"report", "done"} /\ matched_models # <<>>) =>
       /\ summary_csv = <<model_summary>>
       /\ Len(model_summary) = Len(matched_models)
       /\ \A i \in DOMAIN model_summary :
            MatchIdentity(model_summary[i]) = MatchIdentity(matched_models[i])
       /\ \A i, j \in DOMAIN model_summary :
            i # j => MatchIdentity(model_summary[i]) # MatchIdentity(model_summary[j])
  /\ (pc = "done" /\ summary_csv # <<>>) =>
       /\ Len(top_models) = IF Len(model_summary) <= TopN THEN Len(model_summary) ELSE TopN
       /\ \A i \in DOMAIN top_models :
            /\ top_models[i].total_files =
                 top_models[i].historical_files + top_models[i].ssp585_files
            /\ \E k \in DOMAIN model_summary :
                 /\ model_summary[k].model = top_models[i].model
                 /\ model_summary[k].variant = top_models[i].variant
                 /\ model_summary[k].historical_files = top_models[i].historical_files
                 /\ model_summary[k].ssp585_files = top_models[i].ssp585_files
       /\ \A i, j \in DOMAIN top_models :
            /\ i < j => top_models[i].total_files >= top_models[j].total_files
            /\ i # j => top_models[i].model # top_models[j].model

\* C7 witness: two models were ranked, and the second row of the summary, with
\* files under both experiments, ranks first.
C7_Witness ==
  /\ pc = "done"
  /\ Len(model_summary) = 2
  /\ Len(top_models) = 2
  /\ top_models[1].model = model_summary[2].model
  /\ top_models[1].historical_files > 0
  /\ top_models[1].ssp585_files > 0
  /\ top_models[1].total_files > top_models[2].total_files

NoMatchMessage == "No matching models found. Exiting."

\* C8: when a query returned no record, find_matching_variants returns the
\* empty list, generate_wget_scripts is never invoked (no row, no listing, no
\* summary file), main can print the no-match message and return, and the
\* finished run has printed that message only.
C8_EmptyResultEndsGracefully ==
  (pc \notin {"start", "ssp_done"} /\ (ssp_results = <<>> \/ hist_results = <<>>)) =>
    /\ matched_models = <<>>
    /\ pc \in {"hist_done", "matched", "done"}
    /\ listings = <<>> /\ model_summary = <<>> /\ summary_csv = <<>>
    /\ top_models = <<>>
    /\ pc = "matched" => ENABLED MainNoMatch
    /\ pc = "done" => output = <<NoMatchMessage>>

\* C8 witness: the ssp585 query returned records, the historical query
\* returned none, and the run ended with the no-match message.
C8_Witness ==
  /\ pc = "done"
  /\ ssp_results # <<>>
  /\ hist_results = <<>>
  /\ output = <<NoMatchMessage>>

====
